---- MODULE Spec2Model ----
(***************************************************************************)
(* Identity and access control of the scrob server: signup, login, bearer  *)
(* token lookup, token creation and revocation, and the admin routes.      *)
(*                                                                         *)
(* Every SQL statement is one atomic step on the tables; a handler is the  *)
(* sequence of its statements, and handlers of concurrent requests         *)
(* interleave between statements (every `.await` on the pool).  The pure   *)
(* code between two statements runs with the statement that precedes it.   *)
(***************************************************************************)
EXTENDS Integers, Sequences, FiniteSets, Bags, TLC

VARIABLES
  users,          \* table users
  tokens,         \* table api_tokens
  scrobs,         \* table scrobs
  next_user_id,   \* next id the users table assigns
  next_token_id,  \* next id the api_tokens table assigns
  next_scrob_id,  \* next id the scrobs table assigns
  entropy,        \* number of values generate_token has produced
  inflight,       \* bag of requests suspended at a statement
  last,           \* the event of the latest step, NoResp when it had none
  revoked_true,   \* history: token strings a revoke_api_token returned true for
  created,        \* history: <<id, is_admin>> of every user row signup inserted
  admin_changes   \* history: the is_admin updates applied by toggle_admin

vars == <<users, tokens, scrobs, next_user_id, next_token_id, next_scrob_id,
          entropy, inflight, last, revoked_true, created, admin_changes>>

db == <<users, tokens, scrobs>>

(***************************************************************************)
(* Bounds of the model.                                                    *)
(***************************************************************************)
MaxUsers == 3      \* user rows ever inserted
MaxTokens == 3     \* token rows ever inserted
MaxScrobs == 2     \* scrobble rows ever inserted
MaxInflight == 2   \* requests in flight at once
MaxTime == 1       \* values of the wall clock

(***************************************************************************)
(* Limits of the signup policy (src/routes/auth.rs).                       *)
(***************************************************************************)
MinUsernameLen == 3
MaxUsernameLen == 20
MinPasswordLen == 8
MaxPasswordLen == 72

(***************************************************************************)
(* Strings are sequences of code points.                                   *)
(***************************************************************************)
alice == <<97, 108, 105, 99, 101>>
bob == <<98, 111, 98>>
carol == <<99, 97, 114, 111, 108>>
ab == <<97, 98>>
Abcdef12 == <<65, 98, 99, 100, 101, 102, 49, 50>>
Short1A == <<83, 104, 111, 114, 116, 49, 65>>
wrong == <<119, 114, 111, 110, 103>>

SignupUsernames == {alice, bob, carol, ab}

\* inputs at the edges of the signup policy
Repeat(c, n) == [i \in 1..n |-> c]
validUser_1 == <<118, 97, 108, 105, 100, 85, 115, 101, 114, 95, 49>>
a_dash_b == <<97, 45, 98>>
ab_eacute == <<97, 98, 233>>
a_eacute == <<97, 233>>
ab_half == <<97, 98, 189>>
alllowercase1 == <<97, 108, 108, 108, 111, 119, 101, 114, 99, 97, 115, 101, 49>>
nodigitsHere == <<110, 111, 100, 105, 103, 105, 116, 115, 72, 101, 114, 101>>
ALLUPPERCASE1 == <<65, 76, 76, 85, 80, 80, 69, 82, 67, 65, 83, 69, 49>>
Abcdefg_half == <<65, 98, 99, 100, 101, 102, 103, 189>>
PolicyUsernames ==
  {ab, alice, validUser_1, a_dash_b, ab_eacute, a_eacute, ab_half,
   Repeat(97, MaxUsernameLen), Repeat(97, MaxUsernameLen + 1)}
PolicyPasswords ==
  {Abcdef12, Short1A, alllowercase1, nodigitsHere, ALLUPPERCASE1, Abcdefg_half,
   Abcdef12 \o Repeat(97, MaxPasswordLen - 8),
   Abcdef12 \o Repeat(97, MaxPasswordLen - 7)}
SignupPasswords == {Abcdef12, Short1A}
LoginUsernames == {alice, bob, ab}
LoginPasswords == {Abcdef12, wrong}
\* the rows of an initial state were written at time 1 or earlier
Times == 2..(MaxTime + 1)

(***************************************************************************)
(* Credential codec and token generator (src/auth.rs).                     *)
(***************************************************************************)
\* bcrypt::hash: the stored value is not the plaintext
hash_password(password) == <<"bcrypt", password>>

\* bcrypt::verify
verify_password(password, hash) == hash = <<"bcrypt", password>>

\* The n-th value of generate_token: nanosecond timestamp and 32 random bytes.
\* Two calls of the generator never return the same string.  The n-th string
\* is written "tok" followed by the digit n.
TokenString(n) == <<116, 111, 107, 48 + n>>

generate_token_stale == TokenString(1)

generate_token == TokenString(entropy + 1)

\* Option::None of a token; no header value holds the code point 0
NoToken == <<0>>
TokenStrings == {TokenString(n) : n \in 1..MaxTokens}

(***************************************************************************)
(* Authorization header (src/auth.rs:14-41, src/main.rs:79-87).            *)
(***************************************************************************)
Bearer_ == <<66, 101, 97, 114, 101, 114, 32>>     \* "Bearer "
bearer_ == <<98, 101, 97, 114, 101, 114, 32>>     \* "bearer "

\* headers.get("authorization").and_then(|h| h.to_str().ok())
HeaderValue(value) == [present |-> TRUE, value |-> value]
NoHeader == [present |-> FALSE, value |-> <<>>]
Headers ==
  {NoHeader}
    \cup {HeaderValue(Bearer_ \o t) : t \in TokenStrings}
    \cup {HeaderValue(bearer_ \o TokenString(1))}

\* header values around the "Bearer " prefix: another scheme, another case,
\* no space, a space before the scheme, whitespace around the token, a
\* token with a space inside, no token
HeaderShapes ==
  Headers
    \cup {HeaderValue(<<66, 101, 97, 114, 101, 114>> \o TokenString(1)),
          HeaderValue(<<84, 111, 107, 101, 110, 32>> \o TokenString(1)),
          HeaderValue(<<66, 69, 65, 82, 69, 82, 32>> \o TokenString(1)),
          HeaderValue(<<32>> \o Bearer_ \o TokenString(1)),
          HeaderValue(Bearer_ \o <<32>> \o TokenString(2) \o <<32, 9>>),
          HeaderValue(Bearer_ \o TokenString(1) \o <<32, 120>>),
          HeaderValue(Bearer_),
          HeaderValue(Bearer_ \o <<32, 32>>)}

\* str::strip_prefix: the remainder, None when s does not start with prefix
strip_prefix(s, prefix) ==
  IF Len(s) >= Len(prefix) /\ SubSeq(s, 1, Len(prefix)) = prefix
    THEN SubSeq(s, Len(prefix) + 1, Len(s))
    ELSE NoToken

\* char::is_whitespace on the characters HeaderValue::to_str admits: space and tab
is_whitespace(c) == c \in {32, 9}

RECURSIVE trim_start(_)
trim_start(s) ==
  IF s # <<>> /\ is_whitespace(Head(s)) THEN trim_start(Tail(s)) ELSE s

RECURSIVE trim_end(_)
trim_end(s) ==
  IF s # <<>> /\ is_whitespace(s[Len(s)]) THEN trim_end(SubSeq(s, 1, Len(s) - 1)) ELSE s

\* str::trim
trim(s) == trim_end(trim_start(s))

extract_token_from_header_untrimmed(auth_header) ==
  strip_prefix(auth_header.value, Bearer_)

\* auth_header.strip_prefix("Bearer ").map(|t| t.trim().to_string())
extract_token_from_header(auth_header) ==
  LET t == strip_prefix(auth_header.value, Bearer_)
  IN IF t = NoToken THEN NoToken ELSE trim(t)

(***************************************************************************)
(* Tables.                                                                 *)
(***************************************************************************)
UserRow(id, username, password_hash, is_admin) ==
  [id |-> id, username |-> username, password_hash |-> password_hash,
   is_admin |-> is_admin, is_private |-> FALSE]

TokenRow_revoked(id, user_id, token) ==
  [id |-> id, user_id |-> user_id, token |-> token,
   last_used_at |-> 0, revoked |-> TRUE]

\* last_used_at = 0 is NULL; the columns label and created_at, which no
\* statement compares or returns to a decision, are left out
TokenRow(id, user_id, token) ==
  [id |-> id, user_id |-> user_id, token |-> token,
   last_used_at |-> 0, revoked |-> FALSE]

ScrobRow(id, user_id) == [id |-> id, user_id |-> user_id]

\* SELECT ... FROM users WHERE username = $1
users_by_name(username) == {u \in users : u.username = username}

users_by_id_any(id) == users

users_by_id_fallback(id) ==
  IF \E u \in users : u.id = id THEN {u \in users : u.id = id} ELSE users

\* SELECT ... FROM users WHERE id = $1
users_by_id(id) == {u \in users : u.id = id}

find_active_token_any(token) == {t \in tokens : t.token = token}

find_active_token_newest(token) ==
  {t \in tokens : t.token = token /\ ~t.revoked /\ t.id + 2 >= next_token_id}

\* SELECT user_id FROM api_tokens WHERE token = $1 AND revoked = false
find_active_token(token) == {t \in tokens : t.token = token /\ ~t.revoked}

touch_token_all(token, now) ==
  {[t EXCEPT !.last_used_at = now] : t \in tokens}

\* UPDATE api_tokens SET last_used_at = $1 WHERE token = $2
touch_token(token, now) ==
  {IF t.token = token THEN [t EXCEPT !.last_used_at = now] ELSE t : t \in tokens}

first_user_is_admin_never == FALSE

\* NOT EXISTS(SELECT 1 FROM users), evaluated inside the INSERT
first_user_is_admin == users = {}

username_unique_off(username) == TRUE

\* The UNIQUE constraint of users.username
username_unique(username) == users_by_name(username) = {}

revoke_matches_any_owner(token_id, user_id) == {t \in tokens : t.id = token_id}

\* UPDATE api_tokens SET revoked = 1 WHERE id = ? AND user_id = ?
revoke_matches(token_id, user_id) ==
  {t \in tokens : t.id = token_id /\ t.user_id = user_id}

revoke_rows_toggle(token_id, user_id) ==
  {IF t \in revoke_matches(token_id, user_id) THEN [t EXCEPT !.revoked = ~t.revoked]
                                               ELSE t
     : t \in tokens}

revoke_rows(token_id, user_id) ==
  {IF t \in revoke_matches(token_id, user_id) THEN [t EXCEPT !.revoked = TRUE] ELSE t
     : t \in tokens}

(***************************************************************************)
(* Requests and responses.  A request in flight holds the locals its       *)
(* handler still reads; the h_ fields are history, read by no handler.     *)
(***************************************************************************)
NoReq ==
  [op |-> "", surface |-> "", pc |-> "", username |-> <<>>, password |-> <<>>,
   now |-> 0, token |-> NoToken, user_id |-> 0,
   auth_id |-> 0, auth_admin |-> FALSE, target |-> 0, flag |-> FALSE, new_id |-> 0,
   h_after_revoke |-> FALSE, h_status |-> "", h_owner |-> 0, h_cause |-> "",
   h_wrote |-> {}, h_read |-> {}, h_header |-> NoHeader]

\* history: request r has run a statement that reads the tables named
Read(r, tables) == [r EXCEPT !.h_read = @ \cup tables]

\* an event of the latest step: kind "response" when a request returned,
\* "resolved" when a request that goes on has resolved its identity
Event(kind, r, status, error) ==
  [kind |-> kind,
   req |-> [r EXCEPT !.username = <<>>, !.password = <<>>, !.now = 0, !.user_id = 0,
                     !.new_id = 0],
   status |-> status, error |-> error, token |-> NoToken, result |-> FALSE,
   rows |-> {}]

Resp(r, status, error) == Event("response", r, status, error)

NoResp == Event("", NoReq, 0, "")

InFlight == BagToSet(inflight)
Add(r) == inflight (+) SetToBag({r})
Remove(r) == inflight (-) SetToBag({r})
Replace(r, s) == (inflight (-) SetToBag({r})) (+) SetToBag({s})
Count(S) == BagCardinality([r \in S |-> inflight[r]])
Room == BagCardinality(inflight) < MaxInflight

\* requests in flight that still have a row of the table to insert
PendingUsers == Count({r \in InFlight : r.op = "signup" /\ r.pc = "insert_user"})
PendingTokens ==
  Count({r \in InFlight : r.op \in {"signup", "login", "create_api_token"}
                          /\ r.pc \in {"insert_user", "touch", "insert_token",
                                       "handler_touch", "select_user",
                                       "insert_ui_session"}})
PendingScrobs ==
  Count({r \in InFlight : r.op \in {"scrobble", "scrob", "scrob_batch"}
                          /\ r.pc \in {"touch", "insert_scrob", "scrob_insert"}})
UserBudget == next_user_id + PendingUsers <= MaxUsers
TokenBudget == next_token_id + PendingTokens <= MaxTokens
ScrobBudget == next_scrob_id + PendingScrobs <= MaxScrobs

(***************************************************************************)
(* signup validation (src/routes/auth.rs).  str::len counts UTF-8 bytes;   *)
(* the char predicates are the Unicode ones of the standard library.       *)
(***************************************************************************)
utf8_len(c) == IF c < 128 THEN 1 ELSE IF c < 2048 THEN 2 ELSE IF c < 65536 THEN 3 ELSE 4

RECURSIVE str_len(_)
str_len(s) == IF s = <<>> THEN 0 ELSE utf8_len(Head(s)) + str_len(Tail(s))

\* 233 is e-acute, 201 is E-acute; char::is_numeric holds of the decimal
\* digits (1637 is the Arabic-Indic digit five) and of the other numeric
\* characters (189 is the vulgar fraction one half)
is_lowercase(c) == c \in 97..122 \/ c = 233
is_uppercase(c) == c \in 65..90 \/ c = 201
is_numeric(c) == c \in 48..57 \/ c = 1637 \/ c = 189
is_alphanumeric(c) == is_lowercase(c) \/ is_uppercase(c) \/ is_numeric(c)

chars(s) == {s[i] : i \in 1..Len(s)}

signup_validate_off(username, password) == ""

\* the message of the first failing check, "" when the input passes
signup_validate(username, password) ==
  IF str_len(username) < MinUsernameLen \/ str_len(username) > MaxUsernameLen
    THEN "Username must be between 3 and 20 characters"
  ELSE IF ~(\A c \in chars(username) : is_alphanumeric(c) \/ c = 95)
    THEN "Username can only contain letters, numbers, and underscores"
  ELSE IF str_len(password) < MinPasswordLen
    THEN "Password must be at least 8 characters"
  ELSE IF str_len(password) > MaxPasswordLen
    THEN "Password must be at most 72 characters"
  ELSE IF ~(\E c \in chars(password) : is_lowercase(c))
          \/ ~(\E c \in chars(password) : is_uppercase(c))
          \/ ~(\E c \in chars(password) : is_numeric(c))
    THEN "Password must contain at least one lowercase letter, one uppercase letter, and one number"
  ELSE ""

\* the state after the migrations have run on a new database
Init ==
  /\ users = {}
  /\ tokens = {}
  /\ scrobs = {}
  /\ next_user_id = 1
  /\ next_token_id = 1
  /\ next_scrob_id = 1
  /\ entropy = 0
  /\ inflight = EmptyBag
  /\ last = NoResp
  /\ revoked_true = {}
  /\ created = <<>>
  /\ admin_changes = {}

(***************************************************************************)
(* Completion of a request.                                                *)
(***************************************************************************)
\* history: the tables the step of request r wrote; a change of last_used_at
\* of the rows of token tok alone counts as "last_used_at"
no_touch(rows, tok) ==
  {IF t.token = tok THEN [t EXCEPT !.last_used_at = 0] ELSE t : t \in rows}

Wrote(r, tok) ==
  r.h_wrote
    \cup (IF users' # users THEN {"users"} ELSE {})
    \cup (IF scrobs' # scrobs THEN {"scrobs"} ELSE {})
    \cup (IF no_touch(tokens', tok) # no_touch(tokens, tok) THEN {"tokens"} ELSE {})
    \cup (IF tokens' # tokens /\ no_touch(tokens', tok) = no_touch(tokens, tok)
            THEN {"last_used_at"} ELSE {})

\* a request that was in flight returns
Finish(r, resp) ==
  /\ inflight' = Remove(r)
  /\ last' = [resp EXCEPT !.req.h_wrote = Wrote(r, r.token)]

\* a request returns before it suspends
Return(resp) ==
  /\ inflight' = inflight
  /\ last' = resp

\* a request suspends at its next statement
Suspend(r) ==
  /\ Room
  /\ inflight' = Add(r)
  /\ last' = NoResp

\* a request in flight runs a statement and suspends at the next one
Step(r, s) ==
  /\ inflight' = Replace(r, [s EXCEPT !.h_wrote = Wrote(r, r.token)])
  /\ last' = NoResp

UNCHANGED_ids == UNCHANGED <<next_user_id, next_token_id, next_scrob_id, entropy>>
UNCHANGED_hist == UNCHANGED <<revoked_true, created, admin_changes>>

(***************************************************************************)
(* signup (src/routes/auth.rs:109-257), REST only.                         *)
(***************************************************************************)
\* validation, then SELECT id FROM users WHERE username = $1
signup(username, password) ==
  LET r == [NoReq EXCEPT !.op = "signup", !.surface = "rest", !.pc = "insert_user",
                         !.username = username, !.password = password]
      invalid == signup_validate(username, password)
  IN /\ UNCHANGED <<db, revoked_true, created, admin_changes>>
     /\ UNCHANGED_ids
     /\ IF invalid # ""
          THEN Return([Resp([r EXCEPT !.h_cause = "invalid"], 400, invalid)
                         EXCEPT !.req.username = username, !.req.password = password])
        ELSE IF users_by_name(username) # {}
          THEN Return(Resp(Read([r EXCEPT !.h_cause = "username_taken"], {"users"}),
                           409, "Username already exists"))
        ELSE UserBudget /\ TokenBudget /\ Suspend(Read(r, {"users"}))

\* the answer to a violation of the UNIQUE constraint of users.username
signup_insert_failed(r) ==
  Resp([r EXCEPT !.h_cause = "username_taken"], 500, "Failed to create user")

\* hash_password, then INSERT INTO users ... NOT EXISTS(SELECT 1 FROM users) ... RETURNING
signup_insert_user(r) ==
  /\ r.op = "signup" /\ r.pc = "insert_user"
  /\ UNCHANGED <<tokens, scrobs, next_token_id, next_scrob_id, entropy,
                 revoked_true, admin_changes>>
  /\ IF username_unique(r.username)
       THEN LET row == UserRow(next_user_id, r.username, hash_password(r.password),
                               first_user_is_admin)
            IN /\ users' = users \cup {row}
               /\ next_user_id' = next_user_id + 1
               /\ created' = Append(created, <<row.id, row.is_admin>>)
               /\ Step(r, [r EXCEPT !.pc = "insert_token", !.new_id = row.id,
                                    !.auth_admin = row.is_admin,
                                    !.username = <<>>, !.password = <<>>])
       ELSE /\ UNCHANGED <<users, next_user_id, created>>
            /\ Finish(r, signup_insert_failed(r))

\* generate_token, then INSERT INTO api_tokens ... 'session'
signup_insert_token(r) ==
  /\ r.op = "signup" /\ r.pc = "insert_token"
  /\ tokens' = tokens \cup {TokenRow(next_token_id, r.new_id, generate_token)}
  /\ next_token_id' = next_token_id + 1
  /\ entropy' = entropy + 1
  /\ UNCHANGED <<users, scrobs, next_user_id, next_scrob_id>>
  /\ UNCHANGED_hist
  /\ Finish(r, [Resp([r EXCEPT !.auth_id = r.new_id], 200, "")
                  EXCEPT !.token = generate_token])

\* the INSERT INTO api_tokens of signup returns an error (the database is
\* locked, the disk is full): `?` answers 500 and nothing undoes the INSERT
\* INTO users that has already run.  The generated string is dropped.
signup_insert_token_failed(r) ==
  /\ r.op = "signup" /\ r.pc = "insert_token"
  /\ UNCHANGED db
  /\ UNCHANGED_ids
  /\ UNCHANGED_hist
  /\ Finish(r, Resp([r EXCEPT !.h_cause = "insert_failed"], 500,
                    "Failed to create session"))

(***************************************************************************)
(* login (src/routes/auth.rs:31-107 and src/graphql/mutation.rs:16-65).    *)
(***************************************************************************)
\* REST answers with a status and an error body; GraphQL answers 200 with
\* the message in its error channel
invalid_credentials(r, cause) ==
  IF r.surface = "rest"
    THEN Resp([r EXCEPT !.h_cause = cause], 401, "Invalid username or password")
    ELSE Resp([r EXCEPT !.h_cause = cause], 200, "Invalid username or password")

login_no_user_404(r) == Resp([r EXCEPT !.h_cause = "no_user"], 404, "User not found")

\* fetch_optional returned no row
login_no_user(r) == invalid_credentials(r, "no_user")

\* verify_password returned false
login_bad_password(r) == invalid_credentials(r, "bad_password")

\* SELECT ... FROM users WHERE username = $1, then verify_password
login(surface, username, password) ==
  LET r == Read([NoReq EXCEPT !.op = "login", !.surface = surface,
                               !.pc = "insert_token"], {"users"})
      found == users_by_name(username)
  IN /\ UNCHANGED <<db, revoked_true, created, admin_changes>>
     /\ UNCHANGED_ids
     /\ IF found = {}
          THEN Return(login_no_user(r))
        ELSE LET user == CHOOSE u \in found : TRUE
             IN IF ~verify_password(password, user.password_hash)
                  THEN Return(login_bad_password(r))
                  ELSE /\ TokenBudget
                       /\ Suspend([r EXCEPT !.auth_id = user.id,
                                            !.auth_admin = user.is_admin])

\* generate_token, then INSERT INTO api_tokens
login_insert_token(r) ==
  /\ r.op = "login" /\ r.pc = "insert_token"
  /\ tokens' = tokens \cup {TokenRow(next_token_id, r.auth_id, generate_token)}
  /\ next_token_id' = next_token_id + 1
  /\ entropy' = entropy + 1
  /\ UNCHANGED <<users, scrobs, next_user_id, next_scrob_id>>
  /\ UNCHANGED_hist
  /\ Finish(r, [Resp(r, 200, "") EXCEPT !.token = generate_token])

(***************************************************************************)
(* The login mutation as graphql_handler serves it (src/main.rs:74-109,    *)
(* src/graphql/mutation.rs:16-65): the handler looks up the bearer token   *)
(* of the request, if it has one, before the mutation runs.                *)
(***************************************************************************)
\* header -> token -> SELECT user_id FROM api_tokens ...; without a token in
\* the header the first statement is the SELECT of the mutation
graphql_handler_login(header, username, password, now) ==
  LET token == extract_token_from_header(header)
      r == Read([NoReq EXCEPT !.op = "login", !.surface = "graphql",
                              !.username = username, !.password = password,
                              !.token = token, !.h_header = header], {"tokens"})
      found == find_active_token(token)
  IN IF ~header.present \/ token = NoToken
       THEN login("graphql", username, password)
       ELSE /\ UNCHANGED <<db, revoked_true, created, admin_changes>>
            /\ UNCHANGED_ids
            /\ TokenBudget
            /\ IF found = {}
                 THEN Suspend([r EXCEPT !.pc = "select_user"])
                 ELSE Suspend([r EXCEPT !.pc = "handler_touch", !.now = now,
                                        !.user_id = (CHOOSE t \in found : TRUE).user_id])

\* UPDATE api_tokens SET last_used_at ..., SELECT ... FROM users WHERE id = $1;
\* the mutation does not read current_user
graphql_handler_touch(r) ==
  /\ r.op = "login" /\ r.pc = "handler_touch"
  /\ tokens' = touch_token(r.token, r.now)
  /\ UNCHANGED <<users, scrobs>>
  /\ UNCHANGED_ids
  /\ UNCHANGED_hist
  /\ Step(r, Read([r EXCEPT !.pc = "select_user", !.now = 0, !.user_id = 0], {"users"}))

MutationRoot_login_any_password(r) ==
  /\ r.op = "login" /\ r.pc = "select_user"
  /\ UNCHANGED db
  /\ UNCHANGED_ids
  /\ UNCHANGED_hist
  /\ LET found == users_by_name(r.username)
         a == Read([r EXCEPT !.username = <<>>, !.password = <<>>], {"users"})
     IN IF found = {}
          THEN Finish(r, login_no_user(a))
          ELSE LET user == CHOOSE u \in found : TRUE
               IN Step(r, [a EXCEPT !.pc = "insert_ui_session", !.auth_id = user.id,
                                    !.auth_admin = user.is_admin])

\* SELECT ... FROM users WHERE username = ?, then verify_password
MutationRoot_login(r) ==
  /\ r.op = "login" /\ r.pc = "select_user"
  /\ UNCHANGED db
  /\ UNCHANGED_ids
  /\ UNCHANGED_hist
  /\ LET found == users_by_name(r.username)
         a == Read([r EXCEPT !.username = <<>>, !.password = <<>>], {"users"})
     IN IF found = {}
          THEN Finish(r, login_no_user(a))
          ELSE LET user == CHOOSE u \in found : TRUE
               IN IF ~verify_password(r.password, user.password_hash)
                    THEN Finish(r, login_bad_password(a))
                    ELSE Step(r, [a EXCEPT !.pc = "insert_ui_session", !.auth_id = user.id,
                                           !.auth_admin = user.is_admin])

\* generate_token, then INSERT INTO api_tokens ... "UI session" ... revoked 0
MutationRoot_login_insert(r) ==
  /\ r.op = "login" /\ r.pc = "insert_ui_session"
  /\ tokens' = tokens \cup {TokenRow(next_token_id, r.auth_id, generate_token)}
  /\ next_token_id' = next_token_id + 1
  /\ entropy' = entropy + 1
  /\ UNCHANGED <<users, scrobs, next_user_id, next_scrob_id>>
  /\ UNCHANGED_hist
  /\ Finish(r, [Resp(r, 200, "") EXCEPT !.token = generate_token])

(***************************************************************************)
(* Protected requests: AuthUser::from_headers (src/auth.rs:14-33) on the   *)
(* REST surface, graphql_handler (src/main.rs:74-109) with                 *)
(* GraphQLContext::require_user on the GraphQL surface.                    *)
(***************************************************************************)
AdminOps == {"list_users", "get_user", "delete_user", "toggle_admin", "get_stats",
             "delete_scrobble"}
RestOps == AdminOps \cup {"scrobble"}
GraphqlOps == {"create_api_token", "revoke_api_token", "now_playing"}
\* routes/stats.rs and graphql/query.rs
StatsOps == {"recent_scrobbles", "recent_scrobs", "top_artists", "top_tracks"}
\* routes/scrobble.rs and graphql/mutation.rs
ScrobOps == {"scrobble", "scrob", "scrob_batch"}
\* routes/settings.rs
SettingsOps == {"update_privacy", "get_privacy"}

unauthenticated_probe(r) ==
  IF r.surface = "rest"
    THEN Resp([r EXCEPT !.pc = "resolved"], 401,
              IF r.h_read = {} THEN "Unauthorized" ELSE "Invalid token")
    ELSE Resp([r EXCEPT !.pc = "resolved"], 200, "Authentication required")

\* the rejection of a request that resolved to no identity
unauthenticated(r) ==
  IF r.surface = "rest"
    THEN Resp([r EXCEPT !.pc = "resolved"], 401, "Unauthorized")
    ELSE Resp([r EXCEPT !.pc = "resolved"], 200, "Authentication required")

\* history: what the api_tokens table holds for a token string
token_status(token) ==
  IF \E t \in tokens : t.token = token
    THEN IF \E t \in tokens : t.token = token /\ t.revoked THEN "revoked" ELSE "active"
    ELSE IF token \in {TokenString(n) : n \in 1..entropy} THEN "deleted" ELSE "never"

token_owner(token) ==
  IF \E t \in tokens : t.token = token
    THEN (CHOOSE t \in tokens : t.token = token).user_id
    ELSE 0

\* header -> token -> SELECT user_id FROM api_tokens WHERE token = $1 AND revoked = false
get_user_by_token(op, surface, header, target, flag, now) ==
  LET token == extract_token_from_header(header)
      r == [NoReq EXCEPT !.op = op, !.surface = surface, !.pc = "touch",
                         !.now = now, !.token = token,
                         !.target = target, !.flag = flag,
                         !.h_after_revoke = token \in revoked_true,
                         !.h_status = token_status(token),
                         !.h_owner = token_owner(token),
                         !.h_header = header]
      found == find_active_token(token)
  IN /\ UNCHANGED <<db, revoked_true, created, admin_changes>>
     /\ UNCHANGED_ids
     /\ IF ~header.present \/ token = NoToken
          THEN Return(unauthenticated([r EXCEPT !.now = 0, !.target = 0, !.flag = FALSE]))
        ELSE IF found = {}
          THEN Return(unauthenticated(Read([r EXCEPT !.now = 0, !.target = 0,
                                                     !.flag = FALSE], {"tokens"})))
          ELSE /\ op = "create_api_token" => TokenBudget
               /\ op \in ScrobOps => ScrobBudget
               /\ Suspend(Read([r EXCEPT !.user_id = (CHOOSE t \in found : TRUE).user_id],
                                {"tokens"}))

authorize_as_created(r, user) ==
  IF r.op \in AdminOps /\ ~(\E i \in 1..Len(created) : created[i] = <<user.id, TRUE>>)
    THEN <<403, "Admin access required">>
  ELSE IF r.op = "delete_user" /\ user.id = r.target
    THEN <<400, "Cannot delete yourself">>
  ELSE IF r.op = "toggle_admin" /\ user.id = r.target
    THEN <<400, "Cannot change your own admin status">>
  ELSE <<0, "">>

authorize_self_allowed(r, user) ==
  IF r.op \in AdminOps /\ ~user.is_admin
    THEN <<403, "Admin access required">>
    ELSE <<0, "">>

authorize_moderation_open(r, user) ==
  IF r.op \in AdminOps \ {"delete_scrobble"} /\ ~user.is_admin
    THEN <<403, "Admin access required">>
  ELSE IF r.op = "delete_user" /\ user.id = r.target
    THEN <<400, "Cannot delete yourself">>
  ELSE IF r.op = "toggle_admin" /\ user.id = r.target
    THEN <<400, "Cannot change your own admin status">>
  ELSE <<0, "">>

\* the checks a handler makes on the resolved identity before its first statement
authorize(r, user) ==
  IF r.op \in AdminOps /\ ~user.is_admin
    THEN <<403, "Admin access required">>
  ELSE IF r.op = "delete_user" /\ user.id = r.target
    THEN <<400, "Cannot delete yourself">>
  ELSE IF r.op = "toggle_admin" /\ user.id = r.target
    THEN <<400, "Cannot change your own admin status">>
  ELSE <<0, "">>

\* the first statement of each handler
first_pc(r) ==
  CASE r.op \in {"list_users", "get_user", "get_stats"} -> "query"
    [] r.op = "delete_user" -> "delete_scrobs"
    [] r.op = "toggle_admin" -> "update_admin"
    [] r.op = "delete_scrobble" -> "delete_scrob"
    [] r.op = "scrobble" /\ r.target > 0 -> "insert_scrob"
    [] r.op \in {"scrob", "scrob_batch"} /\ r.target > 0 -> "scrob_insert"
    [] r.op \in StatsOps -> "select_scrobs"
    [] r.op = "update_privacy" -> "update_privacy"
    [] r.op = "create_api_token" -> "insert_token"
    [] r.op = "revoke_api_token" -> "revoke"
    [] OTHER -> "done"

\* what a handler keeps of the request once the identity is resolved
resolved(r) ==
  [r EXCEPT !.pc = first_pc(r), !.token = NoToken, !.user_id = 0,
            !.h_after_revoke = FALSE, !.h_status = "", !.h_owner = 0,
            !.h_header = NoHeader]

\* UPDATE api_tokens SET last_used_at = $1 WHERE token = $2, then
\* SELECT ... FROM users WHERE id = $1, then the handler up to its first
\* statement.  The UPDATE writes a column no statement reads and the SELECT
\* reads a table the UPDATE does not write, so a statement of another request
\* that runs between the two has the effect it has when it runs before both:
\* the two are one step.
get_user_by_token_fetch(r) ==
  /\ r.pc = "touch"
  /\ tokens' = touch_token(r.token, r.now)
  /\ UNCHANGED <<users, scrobs>>
  /\ UNCHANGED_ids
  /\ UNCHANGED_hist
  /\ LET found == users_by_id(r.user_id)
     IN IF found = {}
          THEN Finish(r, unauthenticated(Read(r, {"users"})))
          ELSE LET user == CHOOSE u \in found : TRUE
                   a == Read([r EXCEPT !.auth_id = user.id, !.auth_admin = user.is_admin,
                                       !.pc = "resolved"], {"users"})
                   denied == authorize(a, user)
               IN IF denied[1] # 0
                    THEN Finish(r, Resp(a, denied[1], denied[2]))
                  ELSE IF first_pc(a) = "done"
                    THEN Finish(r, Resp(a, 200, ""))
                  ELSE /\ inflight' = Replace(r, resolved(a))
                       /\ last' = Event("resolved", a, 0, "")

\* UPDATE api_tokens SET last_used_at ... returns an error (the database is
\* busy, the disk is full): `?` returns it from get_user_by_token, from_headers
\* maps it to 500 and graphql_handler to no identity
get_user_by_token_touch_failed(r) ==
  /\ r.pc = "touch"
  /\ UNCHANGED db
  /\ UNCHANGED_ids
  /\ UNCHANGED_hist
  /\ LET f == [r EXCEPT !.pc = "resolved", !.h_cause = "touch_failed"]
     IN IF r.surface = "rest"
          THEN Finish(r, Resp(f, 500, "Unauthorized"))
          ELSE Finish(r, Resp(f, 200, "Authentication required"))

(***************************************************************************)
(* Admin routes (src/routes/admin.rs).                                     *)
(***************************************************************************)
\* list_users, get_user, get_stats: SELECTs only
admin_query(r) ==
  /\ r.pc = "query"
  /\ UNCHANGED db
  /\ UNCHANGED_ids
  /\ UNCHANGED_hist
  /\ IF r.op = "get_user" /\ users_by_id(r.target) = {}
       THEN Finish(r, Resp(Read(r, {"users"}), 404, "User not found"))
       ELSE Finish(r, Resp(Read(r, {"users", "scrobs"}), 200, ""))

\* DELETE FROM scrobs WHERE user_id = $1
delete_user_scrobs(r) ==
  /\ r.op = "delete_user" /\ r.pc = "delete_scrobs"
  /\ scrobs' = {s \in scrobs : s.user_id # r.target}
  /\ UNCHANGED <<users, tokens>>
  /\ UNCHANGED_ids
  /\ UNCHANGED_hist
  /\ Step(r, [r EXCEPT !.pc = "delete_tokens"])

\* DELETE FROM api_tokens WHERE user_id = $1
delete_user_tokens(r) ==
  /\ r.op = "delete_user" /\ r.pc = "delete_tokens"
  /\ tokens' = {t \in tokens : t.user_id # r.target}
  /\ UNCHANGED <<users, scrobs>>
  /\ UNCHANGED_ids
  /\ UNCHANGED_hist
  /\ Step(r, [r EXCEPT !.pc = "delete_row"])

\* DELETE FROM users WHERE id = $1
delete_user_row(r) ==
  /\ r.op = "delete_user" /\ r.pc = "delete_row"
  /\ users' = {u \in users : u.id # r.target}
  /\ UNCHANGED <<tokens, scrobs>>
  /\ UNCHANGED_ids
  /\ UNCHANGED_hist
  /\ IF users_by_id(r.target) = {}
       THEN Finish(r, Resp(r, 404, "User not found"))
       ELSE Finish(r, Resp(r, 204, ""))

\* history: who applied an is_admin update, and what the caller's row said then
AdminChange(r) ==
  [target |-> r.target, caller |-> r.auth_id,
   caller_is_admin |-> \E u \in users : u.id = r.auth_id /\ u.is_admin]

\* UPDATE users SET is_admin = $1 WHERE id = $2
toggle_admin_update(r) ==
  /\ r.op = "toggle_admin" /\ r.pc = "update_admin"
  /\ users' = {IF u.id = r.target THEN [u EXCEPT !.is_admin = r.flag] ELSE u : u \in users}
  /\ admin_changes' = IF users' # users THEN admin_changes \cup {AdminChange(r)}
                                        ELSE admin_changes
  /\ UNCHANGED <<tokens, scrobs, revoked_true, created>>
  /\ UNCHANGED_ids
  /\ IF users_by_id(r.target) = {}
       THEN Finish(r, Resp(r, 404, "User not found"))
       ELSE Finish(r, Resp(r, 200, ""))

\* DELETE FROM scrobs WHERE id = $1
delete_scrobble_delete(r) ==
  /\ r.op = "delete_scrobble" /\ r.pc = "delete_scrob"
  /\ scrobs' = {s \in scrobs : s.id # r.target}
  /\ UNCHANGED <<users, tokens>>
  /\ UNCHANGED_ids
  /\ UNCHANGED_hist
  /\ IF {s \in scrobs : s.id = r.target} = {}
       THEN Finish(r, Resp(r, 404, "Scrobble not found"))
       ELSE Finish(r, Resp(r, 204, ""))

(***************************************************************************)
(* scrobble (src/routes/scrobble.rs:59-119): one INSERT per item of the    *)
(* batch; target counts the items left.                                    *)
(***************************************************************************)
scrobble_insert(r) ==
  /\ r.op = "scrobble" /\ r.pc = "insert_scrob"
  /\ scrobs' = scrobs \cup {ScrobRow(next_scrob_id, r.auth_id)}
  /\ next_scrob_id' = next_scrob_id + 1
  /\ UNCHANGED <<users, tokens, next_user_id, next_token_id, entropy>>
  /\ UNCHANGED_hist
  /\ IF r.target = 1
       THEN Finish(r, Resp(r, 200, ""))
       ELSE Step(r, [r EXCEPT !.target = r.target - 1])

(***************************************************************************)
(* scrob and scrobBatch (src/graphql/mutation.rs:68-159): per item one     *)
(* INSERT and one SELECT of the row inserted; scrob is a batch of one.     *)
(***************************************************************************)
\* INSERT INTO scrobs (user_id, ...) VALUES (?, ...) with user.id
scrob_insert(r) ==
  /\ r.op \in {"scrob", "scrob_batch"} /\ r.pc = "scrob_insert"
  /\ scrobs' = scrobs \cup {ScrobRow(next_scrob_id, r.auth_id)}
  /\ next_scrob_id' = next_scrob_id + 1
  /\ UNCHANGED <<users, tokens, next_user_id, next_token_id, entropy>>
  /\ UNCHANGED_hist
  /\ Step(r, [r EXCEPT !.pc = "scrob_select", !.new_id = next_scrob_id])

\* SELECT ... FROM scrobs WHERE id = ? (fetch_one) with last_insert_rowid()
scrob_select(r) ==
  /\ r.op \in {"scrob", "scrob_batch"} /\ r.pc = "scrob_select"
  /\ UNCHANGED db
  /\ UNCHANGED_ids
  /\ UNCHANGED_hist
  /\ LET found == {s \in scrobs : s.id = r.new_id}
         a == Read([r EXCEPT !.new_id = 0], {"scrobs"})
     IN IF found = {}
          THEN Finish(r, Resp(a, 200, "no rows returned"))
        ELSE IF r.target = 1
          THEN Finish(r, [Resp(a, 200, "") EXCEPT !.rows = {x.id : x \in found}])
          ELSE Step(r, [a EXCEPT !.pc = "scrob_insert", !.target = r.target - 1])

(***************************************************************************)
(* Statistics (src/routes/stats.rs, src/graphql/query.rs): recent          *)
(* scrobbles, top artists, top tracks.  Each is one SELECT; the result is  *)
(* drawn from the rows its WHERE clause admits.                            *)
(***************************************************************************)
scrobs_by_user_any(user_id) == scrobs

\* SELECT ... FROM scrobs WHERE user_id = $1 with user.id
scrobs_by_user(user_id) == {s \in scrobs : s.user_id = user_id}

stats_select(r) ==
  /\ r.op \in StatsOps /\ r.pc = "select_scrobs"
  /\ UNCHANGED db
  /\ UNCHANGED_ids
  /\ UNCHANGED_hist
  /\ Finish(r, [Resp(Read(r, {"scrobs"}), 200, "")
                  EXCEPT !.rows = {x.id : x \in scrobs_by_user(r.auth_id)}])

(***************************************************************************)
(* Privacy setting (src/routes/settings.rs).                               *)
(***************************************************************************)
set_is_private_all(id, is_private) ==
  {[u EXCEPT !.is_private = is_private] : u \in users}

\* UPDATE users SET is_private = $1 WHERE id = $2
set_is_private(id, is_private) ==
  {IF u.id = id THEN [u EXCEPT !.is_private = is_private] ELSE u : u \in users}

\* the UPDATE with payload.is_private and user.id; the answer repeats the payload
update_privacy(r) ==
  /\ r.op = "update_privacy" /\ r.pc = "update_privacy"
  /\ users' = set_is_private(r.auth_id, r.flag)
  /\ UNCHANGED <<tokens, scrobs>>
  /\ UNCHANGED_ids
  /\ UNCHANGED_hist
  /\ Finish(r, [Resp(r, 200, "") EXCEPT !.result = r.flag])

(***************************************************************************)
(* Token creation and revocation (src/graphql/mutation.rs:177-243).        *)
(***************************************************************************)
\* generate_token, then INSERT INTO api_tokens
create_api_token_insert(r) ==
  /\ r.op = "create_api_token" /\ r.pc = "insert_token"
  /\ tokens' = tokens \cup {TokenRow(next_token_id, r.auth_id, generate_token)}
  /\ next_token_id' = next_token_id + 1
  /\ entropy' = entropy + 1
  /\ UNCHANGED <<users, scrobs, next_user_id, next_scrob_id>>
  /\ UNCHANGED_hist
  /\ inflight' = Replace(r, [r EXCEPT !.pc = "select_token", !.new_id = next_token_id,
                                      !.token = generate_token,
                                      !.h_wrote = Wrote(r, r.token)])
  /\ last' = NoResp

\* impl From<db::models::ApiToken> for ApiToken: token is None
ApiToken_from(t) ==
  [id |-> t.id, last_used_at |-> t.last_used_at, revoked |-> t.revoked,
   token |-> NoToken]

\* what the GraphQL object ApiToken serves of the value: the field token is
\* #[graphql(skip)], it is not part of the object
ApiToken_served_token(api_token) == NoToken

\* SELECT ... FROM api_tokens WHERE id = ? (fetch_one)
create_api_token_select(r) ==
  /\ r.op = "create_api_token" /\ r.pc = "select_token"
  /\ UNCHANGED db
  /\ UNCHANGED_ids
  /\ UNCHANGED_hist
  /\ LET found == {t \in tokens : t.id = r.new_id}
     IN IF found = {}
          THEN Finish(r, Resp(Read(r, {"tokens"}), 200, "no rows returned"))
          ELSE LET api_token == [ApiToken_from(CHOOSE t \in found : TRUE)
                                   EXCEPT !.token = r.token]
               IN Finish(r, [Resp(Read(r, {"tokens"}), 200, "")
                               EXCEPT !.token = ApiToken_served_token(api_token)])

revoke_api_token_not_found(r) ==
  /\ r.op = "revoke_api_token" /\ r.pc = "revoke"
  /\ tokens' = revoke_rows(r.target, r.auth_id)
  /\ UNCHANGED <<users, scrobs, created, admin_changes>>
  /\ UNCHANGED_ids
  /\ LET matched == revoke_matches(r.target, r.auth_id)
     IN /\ revoked_true' = revoked_true \cup {t.token : t \in matched}
        /\ IF \E t \in tokens : t.id = r.target
             THEN Finish(r, [Resp(r, 200, "") EXCEPT !.result = matched # {}])
             ELSE Finish(r, Resp(r, 200, "Token not found"))

\* UPDATE api_tokens SET revoked = 1 WHERE id = ? AND user_id = ?; rows_affected() > 0
revoke_api_token(r) ==
  /\ r.op = "revoke_api_token" /\ r.pc = "revoke"
  /\ tokens' = revoke_rows(r.target, r.auth_id)
  /\ UNCHANGED <<users, scrobs, created, admin_changes>>
  /\ UNCHANGED_ids
  /\ LET matched == revoke_matches(r.target, r.auth_id)
     IN /\ revoked_true' = revoked_true \cup {t.token : t \in matched}
        /\ Finish(r, [Resp(r, 200, "") EXCEPT !.result = matched # {}])

\* the state after alice, then bob, have signed up on a new database
InitTwoUsers ==
  /\ users = {UserRow(1, alice, hash_password(Abcdef12), TRUE),
              UserRow(2, bob, hash_password(Abcdef12), FALSE)}
  /\ tokens = {TokenRow(1, 1, TokenString(1)), TokenRow(2, 2, TokenString(2))}
  /\ scrobs = {}
  /\ next_user_id = 3
  /\ next_token_id = 3
  /\ next_scrob_id = 1
  /\ entropy = 2
  /\ inflight = EmptyBag
  /\ last = NoResp
  /\ revoked_true = {}
  /\ created = <<<<1, TRUE>>, <<2, FALSE>>>>
  /\ admin_changes = {}

\* the state after alice and bob have then submitted one scrobble each
InitScrobbled ==
  /\ users = {UserRow(1, alice, hash_password(Abcdef12), TRUE),
              UserRow(2, bob, hash_password(Abcdef12), FALSE)}
  /\ tokens = {[TokenRow(1, 1, TokenString(1)) EXCEPT !.last_used_at = 1],
               [TokenRow(2, 2, TokenString(2)) EXCEPT !.last_used_at = 1]}
  /\ scrobs = {ScrobRow(1, 1), ScrobRow(2, 2)}
  /\ next_user_id = 3
  /\ next_token_id = 3
  /\ next_scrob_id = 3
  /\ entropy = 2
  /\ inflight = EmptyBag
  /\ last = NoResp
  /\ revoked_true = {}
  /\ created = <<<<1, TRUE>>, <<2, FALSE>>>>
  /\ admin_changes = {}

(***************************************************************************)
(* Specifications.                                                         *)
(***************************************************************************)
\* ids a client can have learnt: those the tables have assigned
UserIds == 1..(next_user_id - 1)
TokenIds == 1..(next_token_id - 1)
ScrobIds == 1..(next_scrob_id - 1)

Targets(op) ==
  CASE op \in {"get_user", "delete_user", "toggle_admin"} -> UserIds
    [] op = "revoke_api_token" -> TokenIds
    [] op = "delete_scrobble" -> ScrobIds
    [] op \in {"scrobble", "scrob_batch"} -> 0..MaxScrobs
    [] op = "scrob" -> {1}
    [] OTHER -> {0}

Flags(op) == IF op \in {"toggle_admin", "update_privacy"} THEN BOOLEAN ELSE {FALSE}

\* a response is handed to the transport before the server takes its next step
Quiet == last = NoResp

Deliver ==
  /\ ~Quiet
  /\ last' = NoResp
  /\ UNCHANGED <<db, inflight>>
  /\ UNCHANGED_ids
  /\ UNCHANGED_hist

StartSignup ==
  /\ Quiet
  /\ \E u \in SignupUsernames, p \in SignupPasswords : signup(u, p)
\* signups that vary one of the two inputs
StartSignupPolicy ==
  /\ Quiet
  /\ \/ \E u \in PolicyUsernames : signup(u, Abcdef12)
     \/ \E p \in PolicyPasswords : signup(alice, p)
StartLogin ==
  /\ Quiet
  /\ \E s \in {"rest", "graphql"}, u \in LoginUsernames, p \in LoginPasswords :
       login(s, u, p)
StartAdmin ==
  /\ Quiet
  /\ \E op \in AdminOps, h \in Headers, now \in Times :
       \E target \in Targets(op), flag \in Flags(op) :
         get_user_by_token(op, "rest", h, target, flag, now)
StartScrobble ==
  /\ Quiet
  /\ \E h \in Headers, now \in Times, target \in Targets("scrobble") :
       get_user_by_token("scrobble", "rest", h, target, FALSE, now)
StartGraphql ==
  /\ Quiet
  /\ \E op \in GraphqlOps, h \in Headers, now \in Times :
       \E target \in Targets(op) :
         get_user_by_token(op, "graphql", h, target, FALSE, now)

\* the nowPlaying mutation alone of the GraphQL operations
StartNowPlaying ==
  /\ Quiet
  /\ \E h \in Headers, now \in Times :
       get_user_by_token("now_playing", "graphql", h, 0, FALSE, now)

\* DELETE /admin/users/:id alone of the admin routes
StartDeleteUser ==
  /\ Quiet
  /\ \E h \in Headers, now \in Times, target \in UserIds :
       get_user_by_token("delete_user", "rest", h, target, FALSE, now)

SignupInsertUser == Quiet /\ \E r \in InFlight : signup_insert_user(r)
SignupInsertToken == Quiet /\ \E r \in InFlight : signup_insert_token(r)
SignupTokenFailed == Quiet /\ \E r \in InFlight : signup_insert_token_failed(r)
LoginInsertToken == Quiet /\ \E r \in InFlight : login_insert_token(r)
FetchUser == Quiet /\ \E r \in InFlight : get_user_by_token_fetch(r)
TouchFailed == Quiet /\ \E r \in InFlight : get_user_by_token_touch_failed(r)
AdminQuery == Quiet /\ \E r \in InFlight : admin_query(r)
DeleteUserScrobs == Quiet /\ \E r \in InFlight : delete_user_scrobs(r)
DeleteUserTokens == Quiet /\ \E r \in InFlight : delete_user_tokens(r)
DeleteUserRow == Quiet /\ \E r \in InFlight : delete_user_row(r)
ToggleAdminUpdate == Quiet /\ \E r \in InFlight : toggle_admin_update(r)
DeleteScrobbleDelete == Quiet /\ \E r \in InFlight : delete_scrobble_delete(r)
ScrobbleInsert == Quiet /\ \E r \in InFlight : scrobble_insert(r)
ScrobInsert == Quiet /\ \E r \in InFlight : scrob_insert(r)
ScrobSelect == Quiet /\ \E r \in InFlight : scrob_select(r)
StatsSelect == Quiet /\ \E r \in InFlight : stats_select(r)
UpdatePrivacy == Quiet /\ \E r \in InFlight : update_privacy(r)
CreateApiTokenInsert == Quiet /\ \E r \in InFlight : create_api_token_insert(r)
CreateApiTokenSelect == Quiet /\ \E r \in InFlight : create_api_token_select(r)
RevokeApiToken == Quiet /\ \E r \in InFlight : revoke_api_token(r)

Next ==
  \/ Deliver
  \/ StartSignup \/ StartLogin \/ StartAdmin \/ StartScrobble \/ StartGraphql
  \/ SignupInsertUser \/ SignupInsertToken \/ LoginInsertToken
  \/ FetchUser
  \/ AdminQuery \/ DeleteUserScrobs \/ DeleteUserTokens \/ DeleteUserRow
  \/ ToggleAdminUpdate \/ DeleteScrobbleDelete \/ ScrobbleInsert
  \/ CreateApiTokenInsert \/ CreateApiTokenSelect \/ RevokeApiToken

Spec == Init /\ [][Next]_vars

\* signup alone
NextSignup == Deliver \/ StartSignup \/ SignupInsertUser \/ SignupInsertToken

SpecSignup == Init /\ [][NextSignup]_vars

\* signup and login on both surfaces
NextLogin ==
  \/ Deliver
  \/ StartSignup \/ SignupInsertUser \/ SignupInsertToken
  \/ StartLogin \/ LoginInsertToken

SpecLogin == Init /\ [][NextLogin]_vars

\* the session service once two users exist: signup, login, token creation,
\* revocation, lookup
NextSession ==
  \/ Deliver
  \/ StartSignup \/ SignupInsertUser \/ SignupInsertToken
  \/ StartLogin \/ LoginInsertToken
  \/ StartGraphql \/ FetchUser
  \/ CreateApiTokenInsert \/ CreateApiTokenSelect \/ RevokeApiToken

SpecSession == InitTwoUsers /\ [][NextSession]_vars

\* the admin routes once two users exist and have scrobbled
NextAdmin ==
  \/ Deliver
  \/ StartAdmin \/ FetchUser
  \/ AdminQuery \/ DeleteUserScrobs \/ DeleteUserTokens \/ DeleteUserRow
  \/ ToggleAdminUpdate \/ DeleteScrobbleDelete

SpecAdmin == InitScrobbled /\ [][NextAdmin]_vars

\* removal of a user while that user logs in and submits scrobbles
NextCascade ==
  \/ Deliver
  \/ StartLogin \/ LoginInsertToken
  \/ StartDeleteUser \/ StartScrobble \/ FetchUser
  \/ DeleteUserScrobs \/ DeleteUserTokens \/ DeleteUserRow
  \/ ScrobbleInsert

SpecCascade == InitTwoUsers /\ [][NextCascade]_vars

\* protected requests on a database whose last_used_at update can fail
NextTouchFault ==
  \/ Deliver
  \/ StartScrobble \/ StartNowPlaying \/ FetchUser \/ TouchFailed
  \/ ScrobbleInsert

SpecTouchFault == InitTwoUsers /\ [][NextTouchFault]_vars

\* signup with inputs at the edges of the policy
NextPolicy == Deliver \/ StartSignupPolicy \/ SignupInsertUser \/ SignupInsertToken

SpecPolicy == Init /\ [][NextPolicy]_vars

\* signup on a database whose INSERT INTO api_tokens can fail
NextSignupFault ==
  \/ Deliver
  \/ StartSignup \/ SignupInsertUser \/ SignupInsertToken \/ SignupTokenFailed

SpecSignupFault == Init /\ [][NextSignupFault]_vars

\* revokeApiToken with the id of a row or an id no row has yet
StartRevoke ==
  /\ Quiet
  /\ \E h \in Headers, now \in Times, target \in TokenIds \cup {next_token_id} :
       get_user_by_token("revoke_api_token", "graphql", h, target, FALSE, now)

StartCreateApiToken ==
  /\ Quiet
  /\ \E h \in Headers, now \in Times :
       get_user_by_token("create_api_token", "graphql", h, 0, FALSE, now)

\* creation and revocation of tokens
NextRevoke ==
  \/ Deliver
  \/ StartRevoke \/ StartCreateApiToken \/ FetchUser
  \/ CreateApiTokenInsert \/ CreateApiTokenSelect \/ RevokeApiToken

SpecRevoke == InitTwoUsers /\ [][NextRevoke]_vars

\* PUT and GET of the privacy setting
StartPrivacy ==
  /\ Quiet
  /\ \E op \in SettingsOps, h \in Headers, now \in Times :
       \E flag \in Flags(op) : get_user_by_token(op, "rest", h, 0, flag, now)

\* the admin route that sets is_admin, alone
StartToggleAdmin ==
  /\ Quiet
  /\ \E h \in Headers, now \in Times, target \in UserIds, flag \in BOOLEAN :
       get_user_by_token("toggle_admin", "rest", h, target, flag, now)

\* the privacy setting while admins change is_admin and remove users
NextPrivacy ==
  \/ Deliver
  \/ StartPrivacy \/ StartToggleAdmin \/ StartDeleteUser \/ FetchUser
  \/ UpdatePrivacy \/ ToggleAdminUpdate
  \/ DeleteUserScrobs \/ DeleteUserTokens \/ DeleteUserRow

SpecPrivacy == InitTwoUsers /\ [][NextPrivacy]_vars

\* the life of a token: logins issue tokens, owners revoke them, an admin
\* removes users, and tokens are looked up all along
NextLifetime ==
  \/ Deliver
  \/ StartLogin \/ LoginInsertToken
  \/ StartNowPlaying \/ StartRevoke \/ StartDeleteUser \/ FetchUser
  \/ RevokeApiToken
  \/ DeleteUserScrobs \/ DeleteUserTokens \/ DeleteUserRow

SpecLifetime == InitTwoUsers /\ [][NextLifetime]_vars

\* the login mutation sent with an Authorization header
StartGraphqlLogin ==
  /\ Quiet
  /\ \E h \in Headers \ {NoHeader}, u \in LoginUsernames, p \in LoginPasswords,
        now \in Times :
       graphql_handler_login(h, u, p, now)

HandlerTouch == Quiet /\ \E r \in InFlight : graphql_handler_touch(r)
GraphqlLoginSelect == Quiet /\ \E r \in InFlight : MutationRoot_login(r)
GraphqlLoginInsert == Quiet /\ \E r \in InFlight : MutationRoot_login_insert(r)

\* login on the two surfaces, with and without a bearer token, while tokens
\* are revoked
NextLoginSurfaces ==
  \/ Deliver
  \/ StartLogin \/ LoginInsertToken
  \/ StartGraphqlLogin \/ HandlerTouch \/ GraphqlLoginSelect \/ GraphqlLoginInsert
  \/ StartRevoke \/ FetchUser \/ RevokeApiToken

SpecLoginSurfaces == InitTwoUsers /\ [][NextLoginSurfaces]_vars

\* the scrob and scrobBatch mutations
StartScrob ==
  /\ Quiet
  /\ \E op \in {"scrob", "scrob_batch"}, h \in Headers, now \in Times :
       \E target \in Targets(op) :
         get_user_by_token(op, "graphql", h, target, FALSE, now)

\* the statistics of the two surfaces
StartStats ==
  /\ Quiet
  /\ \E h \in Headers, now \in Times :
       \/ \E op \in {"recent_scrobbles", "top_artists", "top_tracks"} :
            get_user_by_token(op, "rest", h, 0, FALSE, now)
       \/ \E op \in {"recent_scrobs", "top_artists", "top_tracks"} :
            get_user_by_token(op, "graphql", h, 0, FALSE, now)

\* submission of scrobbles and statistics over them
NextScrobbles ==
  \/ Deliver
  \/ StartScrobble \/ StartScrob \/ StartStats \/ FetchUser
  \/ ScrobbleInsert \/ ScrobInsert \/ ScrobSelect \/ StatsSelect

SpecScrobbles == InitTwoUsers /\ [][NextScrobbles]_vars

\* now-playing on the two surfaces with every shape of Authorization header
StartHeaderShapes ==
  /\ Quiet
  /\ \E surface \in {"rest", "graphql"}, h \in HeaderShapes, now \in Times :
       get_user_by_token("now_playing", surface, h, 0, FALSE, now)

\* lookups of header values of every shape while tokens are revoked
NextHeaders ==
  \/ Deliver
  \/ StartHeaderShapes \/ StartRevoke \/ FetchUser \/ RevokeApiToken

SpecHeaders == InitTwoUsers /\ [][NextHeaders]_vars

\* the protected operations of the two surfaces
RestProtected ==
  AdminOps \cup SettingsOps
    \cup {"scrobble", "now_playing", "recent_scrobbles", "top_artists", "top_tracks"}
GraphqlProtected ==
  GraphqlOps \cup {"scrob", "scrob_batch", "recent_scrobs", "top_artists", "top_tracks"}

\* the requests of the survey of the protected operations: those that name
\* a row name bob, bob's token or the first scrobble; a batch has one item
SurveyTargets(op) ==
  CASE op \in {"get_user", "delete_user", "toggle_admin", "revoke_api_token"} -> {2}
    [] op \in {"delete_scrobble"} \cup ScrobOps -> {1}
    [] OTHER -> {0}

SurveyFlags(op) == IF op \in {"toggle_admin", "update_privacy"} THEN {TRUE} ELSE {FALSE}

\* a protected request, received when no other request is being served
StartProtected ==
  /\ Quiet
  /\ inflight = EmptyBag
  /\ \E h \in Headers, now \in Times :
       \/ \E op \in RestProtected : \E target \in SurveyTargets(op), flag \in SurveyFlags(op) :
            get_user_by_token(op, "rest", h, target, flag, now)
       \/ \E op \in GraphqlProtected : \E target \in SurveyTargets(op) :
            get_user_by_token(op, "graphql", h, target, FALSE, now)

\* every protected operation, one request at a time
NextProtected ==
  \/ Deliver
  \/ StartProtected \/ FetchUser
  \/ AdminQuery \/ DeleteUserScrobs \/ DeleteUserTokens \/ DeleteUserRow
  \/ ToggleAdminUpdate \/ DeleteScrobbleDelete
  \/ ScrobbleInsert \/ ScrobInsert \/ ScrobSelect \/ StatsSelect \/ UpdatePrivacy
  \/ CreateApiTokenInsert \/ CreateApiTokenSelect \/ RevokeApiToken

SpecProtected == InitTwoUsers /\ [][NextProtected]_vars

(***************************************************************************)
(* Properties.                                                             *)
(***************************************************************************)
\* the latest step resolved the identity of a protected request
ResolvedEvent == last.kind # "" /\ last.req.pc = "resolved"

\* the latest step returned the response of a request of operation op
Response(op) == last.kind = "response" /\ last.req.op = op

\* C1: once revoke_api_token has returned true for a token, every lookup of
\* that token string that starts afterwards resolves to no user, and the
\* token's row stays revoked, whatever else is requested in between.
C1_RevokedNeverResolves ==
  /\ ResolvedEvent /\ last.req.h_after_revoke => last.req.auth_id = 0
  /\ \A r \in InFlight : r.h_after_revoke => r.pc # "touch"
  /\ \A t \in tokens : t.token \in revoked_true => t.revoked

C1_Witness ==
  /\ ResolvedEvent
  /\ last.req.h_after_revoke
  /\ last.req.auth_id = 0
  /\ Cardinality(tokens) = MaxTokens

\* C2: a lookup of a token string that was never issued, or whose row is
\* revoked or gone, resolves to no user; a lookup of an active token resolves
\* to the user its row names as owner, and to nobody when that user has no row.
C2_ResolveExactOwner ==
  ResolvedEvent =>
    IF last.req.h_status = "active" /\ \E u \in users : u.id = last.req.h_owner
      THEN last.req.auth_id = last.req.h_owner
      ELSE last.req.auth_id = 0

C2_Witness ==
  /\ ResolvedEvent
  /\ last.req.h_status = "active"
  /\ last.req.h_owner = 2
  /\ last.req.auth_id = 2

\* C3: of the user rows signups insert into an empty system, in any
\* interleaving, the first inserted has is_admin = true and every later one
\* has is_admin = false.
C3_FirstUserOnlyAdmin ==
  \A i \in 1..Len(created) : created[i][2] = (i = 1)

C3_Witness ==
  /\ Len(created) = MaxUsers
  /\ \E u \in users : u.is_admin

\* C4: no two user rows have the same username.
C4_UsernamesUnique ==
  \A u \in users, v \in users : u.username = v.username => u = v

C4_Witness ==
  /\ Response("signup")
  /\ last.req.h_cause = "username_taken"
  /\ last.status = 500
  /\ Cardinality(users) >= 2

\* C5 (as claimed): a signup whose username is taken when its row would be
\* inserted answers 409 and has written no row, also when the name was taken
\* between its existence check and its insert.
C5_TakenUsernameIs409 ==
  Response("signup") /\ last.req.h_cause = "username_taken" =>
    last.status = 409 /\ last.req.h_wrote = {}

C7_RevokeOthersToken ==
  [][(last'.kind = "response" /\ last'.req.op = "revoke_api_token"
        /\ last'.req.pc = "revoke"
        /\ \E t \in tokens : t.id = last'.req.target /\ t.user_id # last'.req.auth_id)
       => /\ last'.result = FALSE
          /\ tokens' = tokens]_vars

C7_Witness ==
  /\ Response("revoke_api_token")
  /\ last.req.pc = "revoke"
  /\ last.result = FALSE
  /\ \E t \in tokens : /\ t.id = last.req.target
                       /\ t.user_id # last.req.auth_id
                       /\ ~t.revoked
                       /\ find_active_token(t.token) = {t}

\* the latest step returned the response of a delete_user or toggle_admin
SelfTargeted ==
  /\ last.kind = "response"
  /\ last.req.op \in {"delete_user", "toggle_admin"}
  /\ last.req.auth_admin
  /\ last.req.auth_id = last.req.target

\* delete_user and toggle_admin answer success only to an admin other than the target
C8_SuccessNeedsOtherAdmin ==
  last.kind = "response" /\ last.req.op \in {"delete_user", "toggle_admin"}
    /\ last.status \in {200, 204}
    => last.req.auth_admin /\ last.req.auth_id # last.req.target

\* C8 (as claimed): delete_user and toggle_admin succeed only for an admin
\* other than the target, and an admin's request on their own id is rejected
\* having changed no user, token or scrobble row.
C8_SelfTargetChangesNothing ==
  /\ C8_SuccessNeedsOtherAdmin
  /\ SelfTargeted => last.status = 400 /\ last.req.h_wrote = {}

\* C8 (amended): delete_user and toggle_admin succeed only for an admin other
\* than the target, and an admin's request on their own id is rejected having
\* changed nothing but last_used_at of the token it presented.
C8_SelfTargetRejected ==
  /\ C8_SuccessNeedsOtherAdmin
  /\ SelfTargeted => last.status = 400 /\ last.req.h_wrote \subseteq {"last_used_at"}
  /\ \A r \in InFlight :
       r.op \in {"delete_user", "toggle_admin"} /\ r.pc # "touch"
         => r.auth_admin /\ r.auth_id # r.target

C8_Witness ==
  /\ SelfTargeted
  /\ last.req.op = "delete_user"
  /\ last.status = 400
  /\ last.req.h_wrote = {"last_used_at"}
  /\ \E s \in scrobs : s.user_id = last.req.auth_id

\* C9: every admin operation requested with a valid token of a user who is
\* not an admin is denied with 403, having changed nothing but last_used_at
\* of the token presented, and never reaches a statement of the operation.
C9_NonAdminDenied ==
  /\ last.kind # "" /\ last.req.op \in AdminOps /\ last.req.auth_id # 0
       /\ ~last.req.auth_admin
       => /\ last.kind = "response"
          /\ last.status = 403
          /\ last.req.h_wrote \subseteq {"last_used_at"}
  /\ \A r \in InFlight : r.op \in AdminOps /\ r.pc # "touch" => r.auth_admin

C9_Witness ==
  /\ Response("delete_scrobble")
  /\ last.status = 403
  /\ last.req.auth_id = 2
  /\ last.req.h_wrote = {"last_used_at"}
  /\ scrobs # {}

\* C10 (as claimed): every change of a user's is_admin flag is applied by a
\* request whose caller, when the update is applied, has is_admin = true and
\* is not the changed user.
C10_AdminChangedByAdmin ==
  \A c \in admin_changes : c.caller_is_admin /\ c.caller # c.target

\* a row of users with this id exists
HasUser(id) == \E u \in users : u.id = id

\* C11: once the row of user U is gone, a lookup of a token issued to U
\* resolves to no user, whether the token's row was removed by the delete or
\* still names U as its owner.
C11_DeletedUserNeverResolves ==
  /\ ResolvedEvent /\ last.req.h_status = "deleted" => last.req.auth_id = 0
  /\ ResolvedEvent /\ last.req.h_owner # 0 /\ ~HasUser(last.req.h_owner)
       => last.req.auth_id = 0

C11_Witness ==
  /\ ResolvedEvent
  /\ last.req.h_status = "active"
  /\ last.req.h_owner = 2
  /\ ~HasUser(2)
  /\ last.req.auth_id = 0

\* C12 (as claimed): when no request is in flight, every api_tokens row and
\* every scrobs row names a user that has a row.
C12_NoOrphans ==
  inflight = EmptyBag =>
    /\ \A t \in tokens : HasUser(t.user_id)
    /\ \A s \in scrobs : HasUser(s.user_id)

\* C13 (as claimed): when the last_used_at update of a lookup fails while the
\* token is active and its owner has a row, the request is still
\* authenticated as the owner.
C13_TouchFailureStillAuthenticated ==
  ResolvedEvent /\ last.req.h_cause = "touch_failed"
    /\ last.req.h_status = "active" /\ HasUser(last.req.h_owner)
    => last.req.auth_id = last.req.h_owner

\* C14: a signup answered 400 has run no statement, neither a read nor a
\* write, and the step that answers it leaves users and api_tokens as they
\* were; a signup that has reached storage has a username and a password
\* of the lengths the validation admits.
C14_InvalidSignupTouchesNothing ==
  /\ [](\A r \in InFlight :
          r.op = "signup" /\ r.pc = "insert_user"
            => /\ str_len(r.username) \in MinUsernameLen..MaxUsernameLen
               /\ str_len(r.password) \in MinPasswordLen..MaxPasswordLen)
  /\ [][(last'.kind = "response" /\ last'.req.op = "signup" /\ last'.status = 400)
         => /\ last'.req.h_cause = "invalid"
            /\ last'.req.h_read = {} /\ last'.req.h_wrote = {}
            /\ UNCHANGED <<users, tokens, next_user_id, next_token_id>>]_vars

C14_Witness ==
  /\ Response("signup")
  /\ last.status = 400
  /\ last.error = "Password must be at least 8 characters"
  /\ users # {}

\* the username policy as stated: 3 to 20 characters, each an ASCII letter,
\* an ASCII digit or an underscore
AsciiUsername(s) ==
  /\ Len(s) \in 3..20
  /\ \A i \in 1..Len(s) : s[i] \in (48..57) \cup (65..90) \cup (97..122) \cup {95}

UsernameErrors ==
  {"Username must be between 3 and 20 characters",
   "Username can only contain letters, numbers, and underscores"}

\* C15 (as claimed): signup lets a username through to storage only if it
\* has 3 to 20 characters, all ASCII letters, ASCII digits or underscores,
\* and rejects a username with 400 only if it is not of that shape.
C15_UsernameAsciiOnly ==
  /\ \A r \in InFlight :
       r.op = "signup" /\ r.pc = "insert_user" => AsciiUsername(r.username)
  /\ Response("signup") /\ last.status = 400 /\ last.error \in UsernameErrors
       => ~AsciiUsername(last.req.username)

\* the password policy as stated, read in favour of the code: length 8 to 72
\* in bytes, a lowercase and an uppercase letter of any script, and a decimal
\* digit of any script
PolicyPassword(s) ==
  /\ str_len(s) \in 8..72
  /\ \E i \in 1..Len(s) : s[i] \in (97..122) \cup {233}
  /\ \E i \in 1..Len(s) : s[i] \in (65..90) \cup {201}
  /\ \E i \in 1..Len(s) : s[i] \in (48..57) \cup {1637}

\* C16 (as claimed): signup lets a password through to hashing only if it
\* has 8 to 72 bytes, a lowercase letter, an uppercase letter and a digit,
\* and rejects a password with 400 only if it is not of that shape.
C16_PasswordPolicy ==
  /\ \A r \in InFlight :
       r.op = "signup" /\ r.pc = "insert_user" => PolicyPassword(r.password)
  /\ Response("signup") /\ last.status = 400 /\ last.error \notin UsernameErrors
       => ~PolicyPassword(last.req.password)

\* C17: a successful login adds one row to api_tokens, not revoked, owned by
\* the user who logged in and with a token string no row had, and leaves
\* every other row of api_tokens and every row of users as it was.
C17_LoginAddsOneToken ==
  [][(last'.kind = "response" /\ last'.req.op = "login" /\ last'.token # NoToken)
       => /\ \E new \in tokens' \ tokens :
               /\ tokens' = tokens \cup {new}
               /\ new.user_id = last'.req.auth_id
               /\ new.token = last'.token
               /\ ~new.revoked
               /\ \A t \in tokens : t.token # new.token /\ t.id # new.id
          /\ users' = users]_vars

C17_Witness ==
  /\ Response("login")
  /\ last.token # NoToken
  /\ \E t \in tokens : t.user_id = last.req.auth_id /\ t.revoked
  /\ \E t \in tokens : t.user_id = last.req.auth_id /\ t.token = last.token

\* C18: no step changes the revoked flag of a token row from true to false.
C18_RevokedMonotonic ==
  [][\A t \in tokens, n \in tokens' : t.id = n.id /\ t.revoked => n.revoked]_vars

C18_Witness ==
  /\ Response("revoke_api_token")
  /\ last.result
  /\ \E t \in tokens : t.revoked /\ t.last_used_at # 0
  /\ \E t \in tokens : t.revoked /\ t.id # last.req.target

\* C19: the token strings of the rows of api_tokens are pairwise distinct,
\* no step changes the owner or the token string of a row, and the token
\* string of a new row is one the generator had not produced before.
C19_TokenStringsDistinct ==
  /\ [](\A t \in tokens, n \in tokens : t.token = n.token => t = n)
  /\ [][\A n \in tokens' :
          IF \E t \in tokens : t.id = n.id
            THEN \A t \in tokens :
                   t.id = n.id => n.user_id = t.user_id /\ n.token = t.token
            ELSE n.token \notin {TokenString(i) : i \in 1..entropy}]_vars

C19_Witness ==
  /\ Response("create_api_token")
  /\ Cardinality(tokens) = MaxTokens
  /\ \E t \in tokens : t.revoked
  /\ \E t \in tokens : ~t.revoked /\ t.user_id = last.req.auth_id /\ t.id = MaxTokens

\* the latest step answered a token creation with success
Created ==
  /\ last.kind = "response"
  /\ last.error = ""
  /\ \/ last.req.op = "signup" /\ last.status = 200
     \/ last.req.op = "login" /\ last.status = 200
     \/ last.req.op = "create_api_token" /\ last.req.pc = "select_token"

\* C20 (as claimed): the response of a successful signup, login or
\* create_api_token carries the raw token of the row it created, and no
\* other response carries a raw token.
C20_RawTokenOnlyAtCreation ==
  /\ Created => /\ last.token # NoToken
                 /\ \E t \in tokens : t.token = last.token
  /\ last.kind = "response" /\ ~Created => last.token = NoToken

\* the header value starts with the seven characters of "Bearer "
StartsWithBearer(v) == Len(v) >= 7 /\ \A i \in 1..7 : v[i] = Bearer_[i]

\* C21: on every protected operation a request without Authorization header,
\* a request whose header does not start with "Bearer " and a request whose
\* bearer token does not resolve get one and the same rejection: 401 with
\* the body "Unauthorized" on REST, the error "Authentication required" on
\* GraphQL, and nothing else in the response.
C21_RejectionsIdentical ==
  last.kind # "" /\ last.req.pc = "resolved" /\ last.req.h_cause # "touch_failed" =>
    LET q == last.req
        missing == ~q.h_header.present
        malformed == q.h_header.present /\ ~StartsWithBearer(q.h_header.value)
        unresolving == /\ q.h_header.present
                       /\ StartsWithBearer(q.h_header.value)
                       /\ (q.h_status # "active" \/ ~HasUser(q.h_owner))
    IN missing \/ malformed \/ unresolving =>
         /\ last.kind = "response"
         /\ q.auth_id = 0
         /\ last.status = (IF q.surface = "rest" THEN 401 ELSE 200)
         /\ last.error = (IF q.surface = "rest" THEN "Unauthorized"
                                                 ELSE "Authentication required")
         /\ last.token = NoToken /\ last.result = FALSE /\ last.rows = {}

C21_Witness ==
  /\ Response("update_privacy")
  /\ last.req.h_status = "revoked"
  /\ last.status = 401
  /\ last.error = "Unauthorized"
  /\ \E u \in users : u.is_private

\* the step returns the answer of the UPDATE of a revoke_api_token
RevokeAnswered ==
  /\ last'.kind = "response"
  /\ last'.req.op = "revoke_api_token"
  /\ last'.req.pc = "revoke"

\* C22: revoke_api_token with an id no row has and with the id of a row of
\* another user return the same answer, false without an error, and change
\* no row.
C22_RevokeMissIndistinguishable ==
  [][(RevokeAnswered
        /\ ~\E t \in tokens : t.id = last'.req.target /\ t.user_id = last'.req.auth_id)
       => /\ last'.result = FALSE
          /\ last'.status = 200 /\ last'.error = ""
          /\ last'.token = NoToken /\ last'.rows = {}
          /\ UNCHANGED <<db, revoked_true>>]_vars

C22_Witness ==
  /\ Response("revoke_api_token")
  /\ last.req.pc = "revoke"
  /\ last.result = FALSE
  /\ last.error = ""
  /\ ~\E t \in tokens : t.id = last.req.target
  /\ \E t \in tokens : t.revoked

\* C23 (as claimed): revoke_api_token returns true exactly when its UPDATE
\* changed a row, so a revoke of a token that is already revoked returns false.
C23_TrueIffRowChanged ==
  [][RevokeAnswered => (last'.result <=> tokens' # tokens)]_vars

\* the step returns the answer of the UPDATE of an update_privacy
PrivacyAnswered ==
  /\ last'.kind = "response"
  /\ last'.req.op = "update_privacy"
  /\ last'.req.pc = "update_privacy"

\* C24: is_private of a user row changes only in the UPDATE of an
\* update_privacy authenticated as that user, to the value requested; that
\* step changes no other column of the caller's row, no other user row, no
\* token row and no scrobble, and the steps of the request before it change
\* nothing but last_used_at of the token the request presented.
C24_PrivacyOwnerOnly ==
  /\ [][\A u \in users, n \in users' :
          u.id = n.id /\ u.is_private # n.is_private
            => /\ PrivacyAnswered
               /\ last'.req.auth_id = u.id
               /\ n.is_private = last'.req.flag]_vars
  /\ [][PrivacyAnswered
         => /\ UNCHANGED <<tokens, scrobs>>
            /\ {v.id : v \in users'} = {v.id : v \in users}
            /\ \A v \in users, w \in users' :
                 v.id = w.id => /\ [w EXCEPT !.is_private = v.is_private] = v
                                /\ v.id # last'.req.auth_id => w = v]_vars
  /\ [][last'.kind # "" /\ last'.req.op = "update_privacy" /\ ~PrivacyAnswered
         => /\ UNCHANGED <<users, scrobs>>
            /\ {t.id : t \in tokens'} = {t.id : t \in tokens}
            /\ \A t \in tokens, m \in tokens' :
                 t.id = m.id => /\ [m EXCEPT !.last_used_at = t.last_used_at] = t
                                /\ t.token # last'.req.token => m = t]_vars

C24_Witness ==
  /\ Response("update_privacy")
  /\ last.req.pc = "update_privacy"
  /\ last.req.auth_id = 2
  /\ last.req.h_wrote = {"users"}
  /\ \E t \in tokens : t.user_id = 2 /\ t.last_used_at # 0
  /\ \E u \in users : u.id = 2 /\ u.is_private /\ u.is_admin
  /\ \E u \in users : u.id = 1 /\ ~u.is_private

\* C25: a token row that is not revoked stays, not revoked and with its
\* string and owner, through every step except the UPDATE of a
\* revoke_api_token of its owner and the DELETE of its owner's tokens by
\* delete_user; and whenever the row of a token is active and its owner has
\* a row, a lookup of the token resolves to the owner, however many tokens
\* have been issued, whatever the time, used or not.
C25_NoImplicitExpiry ==
  /\ [](ResolvedEvent /\ last.req.h_status = "active" /\ HasUser(last.req.h_owner)
          => last.req.auth_id = last.req.h_owner)
  /\ [][\A t \in tokens :
          IF \E m \in tokens' : m.id = t.id
            THEN \A m \in tokens' :
                   m.id = t.id
                     => /\ m.token = t.token /\ m.user_id = t.user_id
                        /\ ~t.revoked /\ m.revoked
                             => /\ RevokeAnswered
                                /\ last'.req.target = t.id
                                /\ last'.req.auth_id = t.user_id
            ELSE \E r \in InFlight : /\ r.op = "delete_user"
                                      /\ r.pc = "delete_tokens"
                                      /\ r.target = t.user_id]_vars

C25_Witness ==
  /\ ResolvedEvent
  /\ last.req.h_status = "active"
  /\ last.req.auth_id = 2
  /\ last.req.token = TokenString(2)
  /\ Cardinality(tokens) = MaxTokens
  /\ \E t \in tokens : t.revoked
  /\ \E t \in tokens : t.token = TokenString(2) /\ t.last_used_at # 0

\* C26 (as claimed): a protected request goes on to a statement of its
\* operation only with an identity, and a request rejected for want of an
\* identity has changed no stored row.
C26_UnresolvedChangesNothing ==
  /\ \A r \in InFlight :
       r.op \in RestProtected \cup GraphqlProtected /\ r.pc # "touch" => r.auth_id # 0
  /\ last.kind = "response" /\ last.req.pc = "resolved" /\ last.req.auth_id = 0
       /\ last.req.h_cause # "touch_failed"
       => last.req.h_wrote = {}

InvalidCredentials == "Invalid username or password"

\* the two logins agree on which pairs of username and password they refuse
LoginsRefuseAlike ==
  /\ \A u \in LoginUsernames, p \in LoginPasswords :
       (ENABLED (login("rest", u, p) /\ last'.error = InvalidCredentials))
         <=> (ENABLED (login("graphql", u, p) /\ last'.error = InvalidCredentials))
  /\ \A r \in InFlight :
       r.op = "login" /\ r.pc = "select_user" =>
         ((ENABLED (MutationRoot_login(r) /\ last'.error = InvalidCredentials))
            <=> (ENABLED (login("rest", r.username, r.password)
                            /\ last'.error = InvalidCredentials)))

\* a successful login step adds one token row, not revoked, of the user
LoginAddsSession ==
  (last'.kind = "response" /\ last'.req.op = "login" /\ last'.token # NoToken)
    => /\ \E new \in tokens' \ tokens :
            /\ tokens' = tokens \cup {new}
            /\ new.user_id = last'.req.auth_id
            /\ new.token = last'.token
            /\ ~new.revoked
       /\ UNCHANGED <<users, scrobs>>

\* C27 (as claimed): the REST login and the GraphQL login refuse the same
\* pairs of username and password, with the same message; a successful
\* login of either adds one token row, not revoked, of that user, and the
\* request has changed nothing else; a refused login has changed nothing.
C27_LoginsIdentical ==
  /\ [](LoginsRefuseAlike)
  /\ [](Response("login")
          => IF last.token # NoToken
               THEN last.error = "" /\ last.req.h_wrote = {"tokens"}
               ELSE last.error = InvalidCredentials /\ last.req.h_wrote = {})
  /\ [][LoginAddsSession]_vars

\* C27 (amended): as claimed, except that a GraphQL login sent with a bearer
\* token that is active also sets last_used_at of that token, whether the
\* login succeeds or is refused.
C27_LoginsIdenticalButTouch ==
  /\ [](LoginsRefuseAlike)
  /\ [](Response("login")
          => /\ IF last.token # NoToken
                  THEN last.error = "" /\ last.req.h_wrote \ {"last_used_at"} = {"tokens"}
                  ELSE /\ last.error = InvalidCredentials
                       /\ last.req.h_wrote \ {"last_used_at"} = {}
             /\ "last_used_at" \in last.req.h_wrote
                  => /\ last.req.surface = "graphql"
                     /\ StartsWithBearer(last.req.h_header.value))
  /\ [][LoginAddsSession]_vars

C27_Witness ==
  /\ Response("login")
  /\ last.req.surface = "graphql"
  /\ last.token # NoToken
  /\ last.req.h_wrote = {"tokens", "last_used_at"}
  /\ last.req.auth_id = 2
  /\ last.req.h_header = HeaderValue(Bearer_ \o TokenString(1))

\* C28: a row inserted into scrobs by scrobble, scrob or scrob_batch has the
\* user id of the identity its request resolved, which is the owner of the
\* token presented; and the rows a statistics query answers from all have
\* the user id of the identity of its request.
C28_ScrobblesOfCaller ==
  /\ [](ResolvedEvent /\ last.req.op \in ScrobOps \cup StatsOps /\ last.req.auth_id # 0
          => last.req.auth_id = last.req.h_owner)
  /\ [](last.kind = "response" /\ last.req.op \in StatsOps
            /\ last.req.pc = "select_scrobs"
          => \A id \in last.rows :
               \E x \in scrobs : x.id = id /\ x.user_id = last.req.auth_id)
  /\ [][\A n \in scrobs' \ scrobs :
          \E r \in InFlight : /\ r.op \in ScrobOps
                               /\ r.pc \in {"insert_scrob", "scrob_insert"}
                               /\ r.auth_id # 0
                               /\ n.user_id = r.auth_id]_vars

C28_Witness ==
  /\ Response("recent_scrobs")
  /\ last.req.auth_id = 2
  /\ last.rows # {}
  /\ \E x \in scrobs : x.user_id = 1
  /\ \E x \in scrobs : x.user_id = 2

\* t is s without the whitespace at its two ends
IsTrimOf(t, s) ==
  \E a \in 0..Len(s) : \E b \in 0..(Len(s) - a) :
    /\ t = SubSeq(s, a + 1, Len(s) - b)
    /\ \A i \in 1..a : s[i] \in {32, 9}
    /\ \A i \in (Len(s) - b + 1)..Len(s) : s[i] \in {32, 9}
    /\ t # <<>> => t[1] \notin {32, 9} /\ t[Len(t)] \notin {32, 9}

\* the token a request holds is the one its header value spells
Extracted(q) ==
  LET v == q.h_header.value
  IN IF q.h_header.present /\ StartsWithBearer(v)
       THEN /\ IsTrimOf(q.token, SubSeq(v, 8, Len(v)))
            /\ "tokens" \in q.h_read
       ELSE /\ q.token = NoToken
            /\ q.h_read = {}
            /\ q.auth_id = 0

\* C29: a header value that starts with "Bearer " gives as token the rest
\* of the value without the whitespace at its ends, and that token is looked
\* up; any other value, and a request without the header, gives no token,
\* runs no statement and is rejected.
C29_BearerExtraction ==
  /\ \A r \in InFlight :
       r.pc = "touch" => Extracted(r) /\ StartsWithBearer(r.h_header.value)
  /\ last.kind # "" /\ last.req.pc = "resolved"
       => /\ Extracted(last.req)
          /\ ~StartsWithBearer(last.req.h_header.value)
               => last.kind = "response" /\ last.status \in {401, 200}
                                         /\ last.error # ""

C29_Witness ==
  /\ Response("now_playing")
  /\ last.error = ""
  /\ last.req.auth_id = 2
  /\ last.req.h_header = HeaderValue(Bearer_ \o <<32>> \o TokenString(2) \o <<32, 9>>)
  /\ last.req.token = TokenString(2)
  /\ \E t \in tokens : t.revoked

C31_AlwaysAnAdmin ==
  users # {} => \E u \in users : u.is_admin

(***************************************************************************)
(* C32.  signup is all-or-nothing: whenever signup answers with an error   *)
(* of any kind, a failure of the session-token insert included, the        *)
(* request has created no user row; whenever it succeeds, the user row and *)
(* one session token for it exist.                                         *)
(***************************************************************************)
C32_SignupAllOrNothing ==
  (last.kind = "response" /\ last.req.op = "signup") =>
     IF last.status # 200
       THEN "users" \notin last.req.h_wrote
       ELSE /\ \E u \in users : u.id = last.req.auth_id
            /\ Cardinality({t \in tokens : t.user_id = last.req.auth_id}) = 1
            /\ \E t \in tokens : t.user_id = last.req.auth_id /\ t.token = last.token

(***************************************************************************)
(* C33.  Once a token has been revoked its row is never modified again:    *)
(* no resolve, one that looked the token up just before the revocation was *)
(* recorded included, updates last_used_at of a revoked token.             *)
(***************************************************************************)
C33_RevokedRowFrozen ==
  [][\A t \in tokens : t.revoked => \A s \in tokens' : s.id = t.id => s = t]_vars

\* the step on which an admin request resolves its identity and is checked
AdminDecision ==
  /\ last'.kind # ""
  /\ last'.req.op \in AdminOps
  /\ last'.req.pc = "resolved"
  /\ last'.req.auth_id # 0

(***************************************************************************)
(* C34.  Privilege is read from current storage on every request: an admin *)
(* operation is denied with 403 exactly when the users row of the owner of *)
(* the presented token says is_admin = false at the time the request       *)
(* resolves its identity.  So after toggle_admin has demoted a user and    *)
(* returned, every admin operation the user starts afterwards with any     *)
(* valid token is denied, and after a promotion every one is let through   *)
(* to the checks on its target, with no new login in between.              *)
(***************************************************************************)
C34_PrivilegeFromStorage ==
  [][AdminDecision =>
       \E u \in users :
          /\ u.id = last'.req.auth_id
          /\ u.id = last'.req.h_owner
          /\ IF u.is_admin
               THEN \/ last'.kind = "resolved"
                    \/ last'.status = 400 /\ last'.req.target = u.id
               ELSE last'.kind = "response" /\ last'.status = 403]_vars

\* alice, admin when her token was issued, is denied with that token after
\* bob demoted her, while a request of bob, not an admin when his token was
\* issued, has passed the admin check and is at its first statement
C34_Witness ==
  /\ last.kind = "response" /\ last.status = 403
  /\ last.req.op \in AdminOps
  /\ last.req.auth_id = 1
  /\ last.req.token = TokenString(1)
  /\ created[1] = <<1, TRUE>> /\ created[2] = <<2, FALSE>>
  /\ \E r \in InFlight : r.op \in AdminOps /\ r.auth_id = 2 /\ r.auth_admin
                          /\ r.pc \notin {"touch", "resolved"}
  /\ \A c \in admin_changes : c.caller_is_admin

============================================================================
